---------------------------- MODULE Spec2Model ----------------------------
(***************************************************************************)
(* Model of the external-diff plugin: the FileWatcher change classifier,   *)
(* the patience diff engine (patienceDiff, lineDiff) and the range folder  *)
(* (computeUnchangedRanges).                                               *)
(*                                                                         *)
(* The classifier is a state machine driven by the host's vault events.    *)
(* A handler that awaits vault.cachedRead is split at the await: the       *)
(* notification step queues a read in `inflight`, the completion step runs *)
(* the rest of the handler atomically (JavaScript runs a continuation to   *)
(* completion).  file.path is evaluated after the await, on a TFile whose  *)
(* path the host rewrites on rename, so a queued read follows its file     *)
(* through renames.                                                        *)
(***************************************************************************)
EXTENDS Integers, Sequences, FiniteSets, TLC

(***************************************************************************)
(* Bounds of the model.                                                    *)
(***************************************************************************)
NumContents == 2
MaxInflight == 1
DebounceTicks == 1
MaxLen == 4
MaxGap == 6
MaxMargin == 2
MaxMinSize == 4
ExampleGap == 100
MaxBlocks == 2

Paths == {"P", "Q"}
Contents == 1..NumContents

\* snapshots.get(path) === undefined
NoSnapshot == 0
\* debounceTimers.get(path) === undefined
NoTimer == -1
\* pendingDiffs.get(path) === undefined
NoDiff == <<>>

VARIABLES
    exists,                     \* markdown files in the vault (host state)
    started,                    \* start() has been called
    destroyed,                  \* destroy() has been called
    snapshots,                  \* FileWatcher.snapshots
    recentlyEditedInternally,   \* FileWatcher.recentlyEditedInternally
    pendingExternalPaths,       \* FileWatcher.pendingExternalPaths
    debounceTimers,             \* FileWatcher.debounceTimers: ticks left
    armed,                      \* the host's timers set and not yet run or
                                \* cleared: per closed-over path, ticks left
    inflight,                   \* handlers suspended at await cachedRead
    pendingDiffs,               \* ExternalDiffPlugin.pendingDiffs
    markerAge,                  \* history: ticks since a marker was armed
    baseline,                   \* history: snapshot when a path went pending
    last,                       \* observation: the step just taken
    emitted,                    \* observation: onExternalChange calls of it
    aLines,                     \* patienceDiff input aLines
    bLines,                     \* patienceDiff input bLines
    stage,                      \* which pure function has been applied
    result,                     \* patienceDiff(aLines, bLines).lines
    anchors,                    \* history: each recurseLCS call's anchors
    changes,                    \* lineDiff of the two texts
    abMap,                      \* longestCommonSubsequence input abMap
    lcs,                        \* what longestCommonSubsequence returned
    doc,                        \* computeUnchangedRanges: doc, line lengths
    chunks,                     \* computeUnchangedRanges: chunks
    side,                       \* computeUnchangedRanges: side
    margin,                     \* computeUnchangedRanges: margin
    minSize,                    \* computeUnchangedRanges: minSize
    layout,                     \* history: the blocks and gaps of the doc
    ranges,                     \* what computeUnchangedRanges returned
    foldA,                      \* foldField of mergeView.a: ranges, foldedIds
    foldB,                      \* foldField of mergeView.b: ranges, foldedIds
    script,                     \* scenario: the contents S0..S3, or <<>>
    pc,                         \* scenario: events of path "P" so far
    reportLog                   \* scenario: the reports about "P" so far

watcherVars == <<snapshots, recentlyEditedInternally, pendingExternalPaths,
                 debounceTimers, armed, markerAge, baseline>>
vars == <<exists, started, destroyed, snapshots,
          recentlyEditedInternally, pendingExternalPaths, debounceTimers,
          armed, inflight, pendingDiffs, markerAge, baseline, last, emitted,
          aLines, bLines, stage, result, anchors, changes, abMap, lcs, doc,
          chunks, side,
          margin, minSize, layout, ranges, foldA, foldB, script, pc,
          reportLog>>
classifierVars == <<exists, started, destroyed, snapshots,
                    recentlyEditedInternally, pendingExternalPaths,
                    debounceTimers, armed, inflight, pendingDiffs, markerAge,
                    baseline, last, emitted>>
diffVars == <<aLines, bLines, result, anchors, changes, abMap, lcs>>
foldVars == <<doc, chunks, side, margin, minSize, layout, ranges, foldA,
              foldB>>
pureVars == <<stage, diffVars, foldVars>>
scenarioVars == <<script, pc, reportLog>>

(***************************************************************************)
(* The FileWatcher's fields as one record, so that a handler that calls    *)
(* another method composes.                                                *)
(***************************************************************************)
FW == [snapshots |-> snapshots,
       recentlyEditedInternally |-> recentlyEditedInternally,
       pendingExternalPaths |-> pendingExternalPaths,
       debounceTimers |-> debounceTimers,
       armed |-> armed,
       markerAge |-> markerAge,
       baseline |-> baseline]

SetFW(w) ==
    /\ snapshots' = w.snapshots
    /\ recentlyEditedInternally' = w.recentlyEditedInternally
    /\ pendingExternalPaths' = w.pendingExternalPaths
    /\ debounceTimers' = w.debounceTimers
    /\ armed' = w.armed
    /\ markerAge' = w.markerAge
    /\ baseline' = w.baseline

Report(path, oldContent, newContent) ==
    [path |-> path, oldContent |-> oldContent, newContent |-> newContent]

\* What `last` holds after a classification: its inputs, and the snapshot
\* and pending flag it found.
Classified(path, content, viewHas, oldContent, wasPending) ==
    [op |-> "classify", path |-> path, content |-> content,
     viewHas |-> viewHas, oldContent |-> oldContent,
     wasPending |-> wasPending, raced |-> FALSE]

\* What `last` holds after any other step.
NoEvent ==
    [op |-> "other", path |-> "P", content |-> NoSnapshot,
     viewHas |-> FALSE, oldContent |-> NoSnapshot, wasPending |-> FALSE,
     raced |-> FALSE]

\* A step that is no classification: what ran, on which path, and the
\* content it read (for destroy: how many timers it found in the map; for
\* an editor change: the ticks left of the timer it found, or NoTimer).
Event(op, path, content) ==
    [op |-> op, path |-> path, content |-> content,
     viewHas |-> FALSE, oldContent |-> NoSnapshot, wasPending |-> FALSE,
     raced |-> FALSE]

\* A handler suspended at its await.  n tells the pending handleModify
\* calls apart: each is its own promise.  raced is history: the marker of
\* the read's path has expired since the notification was delivered.
Read(kind, path, live) ==
    [kind |-> kind, path |-> path, live |-> live, n |-> 0, raced |-> FALSE]

Tagged(read, queue) ==
    [read EXCEPT !.n = CHOOSE n \in 1..(Len(queue) + 1) :
                          /\ \A i \in DOMAIN queue : queue[i].n # n
                          /\ \A m \in 1..(n - 1) :
                                \E i \in DOMAIN queue : queue[i].n = m]

\* The scenario's bookkeeping, part of every watcher step: a step that is an
\* event of path "P" advances pc, and the reports about "P" are logged.
\* Nothing is kept outside a scenario.
Track(path) ==
    /\ script' = script
    /\ pc' = IF script # <<>> /\ path = "P" THEN pc + 1 ELSE pc
    /\ reportLog' = IF script = <<>> THEN reportLog
                    ELSE reportLog \o SelectSeq(emitted',
                                                LAMBDA r : r.path = "P")

RemoveAt(s, i) == SubSeq(s, 1, i - 1) \o SubSeq(s, i + 1, Len(s))

(***************************************************************************)
(* FileWatcher methods as functions of the watcher record.                 *)
(***************************************************************************)
\* Variants of handleModify, each with one plausible slip.
\* The external branch also moves the snapshot to the new content.
handleModify_advancesBaseline(w, path, newContent, viewHas) ==
    LET oldContent == w.snapshots[path]
        set == [w EXCEPT !.snapshots[path] = newContent]
    IN  IF oldContent = NoSnapshot \/ oldContent = newContent
          THEN [w |-> set, reports |-> <<>>]
        ELSE IF path \in w.pendingExternalPaths
          THEN [w |-> w, reports |-> <<Report(path, oldContent, newContent)>>]
        ELSE IF path \in w.recentlyEditedInternally
          THEN [w |-> set, reports |-> <<>>]
        ELSE IF viewHas
          THEN [w |-> set, reports |-> <<>>]
        ELSE [w |-> [set EXCEPT !.pendingExternalPaths = @ \cup {path},
                                !.baseline[path] = oldContent],
              reports |-> <<Report(path, oldContent, newContent)>>]

\* The debounce check is missing.
handleModify_skipsDebounce(w, path, newContent, viewHas) ==
    LET oldContent == w.snapshots[path]
        set == [w EXCEPT !.snapshots[path] = newContent]
    IN  IF oldContent = NoSnapshot \/ oldContent = newContent
          THEN [w |-> set, reports |-> <<>>]
        ELSE IF path \in w.pendingExternalPaths
          THEN [w |-> w, reports |-> <<Report(path, oldContent, newContent)>>]
        ELSE IF viewHas
          THEN [w |-> set, reports |-> <<>>]
        ELSE [w |-> [w EXCEPT !.pendingExternalPaths = @ \cup {path},
                              !.baseline[path] = oldContent],
              reports |-> <<Report(path, oldContent, newContent)>>]

\* The pending check comes after the debounce check.
handleModify_debounceFirst(w, path, newContent, viewHas) ==
    LET oldContent == w.snapshots[path]
        set == [w EXCEPT !.snapshots[path] = newContent]
    IN  IF oldContent = NoSnapshot \/ oldContent = newContent
          THEN [w |-> set, reports |-> <<>>]
        ELSE IF path \in w.recentlyEditedInternally
          THEN [w |-> set, reports |-> <<>>]
        ELSE IF path \in w.pendingExternalPaths
          THEN [w |-> w, reports |-> <<Report(path, oldContent, newContent)>>]
        ELSE IF viewHas
          THEN [w |-> set, reports |-> <<>>]
        ELSE [w |-> [w EXCEPT !.pendingExternalPaths = @ \cup {path},
                              !.baseline[path] = oldContent],
              reports |-> <<Report(path, oldContent, newContent)>>]

\* A change with no marker and no view showing it goes for an internal one.
handleModify_towardInternal(w, path, newContent, viewHas) ==
    LET oldContent == w.snapshots[path]
        set == [w EXCEPT !.snapshots[path] = newContent]
    IN  IF oldContent = NoSnapshot \/ oldContent = newContent
          THEN [w |-> set, reports |-> <<>>]
        ELSE IF path \in w.pendingExternalPaths
          THEN [w |-> w, reports |-> <<Report(path, oldContent, newContent)>>]
        ELSE [w |-> set, reports |-> <<>>]

\* The body of handleModify after the await: the classification.  viewHas
\* is the answer of editorHasContent(path, newContent).
handleModify(w, path, newContent, viewHas) ==
    LET oldContent == w.snapshots[path]
        set == [w EXCEPT !.snapshots[path] = newContent]
    IN  IF oldContent = NoSnapshot \/ oldContent = newContent
          THEN [w |-> set, reports |-> <<>>]
        ELSE IF path \in w.pendingExternalPaths
          THEN [w |-> w, reports |-> <<Report(path, oldContent, newContent)>>]
        ELSE IF path \in w.recentlyEditedInternally
          THEN [w |-> set, reports |-> <<>>]
        ELSE IF viewHas
          THEN [w |-> set, reports |-> <<>>]
        ELSE [w |-> [w EXCEPT !.pendingExternalPaths = @ \cup {path},
                              !.baseline[path] = oldContent],
              reports |-> <<Report(path, oldContent, newContent)>>]

\* Whether handleModify gets as far as asking editorHasContent.
consultsEditor(w, path, newContent) ==
    /\ w.snapshots[path] # NoSnapshot
    /\ w.snapshots[path] # newContent
    /\ path \notin w.pendingExternalPaths
    /\ path \notin w.recentlyEditedInternally

\* The body of handleCreate after the await, and of start's per-file
\* callback after its await.
handleCreate(w, path, content) ==
    [w EXCEPT !.snapshots[path] = content]

handleDelete_dropsPending(w, path) ==
    [w EXCEPT !.snapshots[path] = NoSnapshot,
              !.recentlyEditedInternally = @ \ {path},
              !.pendingExternalPaths = @ \ {path},
              !.markerAge[path] = 0]

handleDelete(w, path) ==
    [w EXCEPT !.snapshots[path] = NoSnapshot,
              !.recentlyEditedInternally = @ \ {path},
              !.markerAge[path] = 0]

handleRename_keepsMarker(w, path, oldPath) ==
    LET content == w.snapshots[oldPath]
    IN  IF content # NoSnapshot
          THEN [w EXCEPT !.snapshots[oldPath] = NoSnapshot,
                         !.snapshots[path] = content]
          ELSE w

handleRename(w, path, oldPath) ==
    LET content == w.snapshots[oldPath]
        w1 == IF content # NoSnapshot
                THEN [w EXCEPT !.snapshots[oldPath] = NoSnapshot,
                               !.snapshots[path] = content]
                ELSE w
    IN  IF oldPath \in w1.recentlyEditedInternally
          THEN [w1 EXCEPT !.recentlyEditedInternally =
                              (@ \ {oldPath}) \cup {path},
                          !.markerAge[path] = w1.markerAge[oldPath],
                          !.markerAge[oldPath] = 0]
          ELSE w1

updateSnapshot(w, path, content) ==
    [w EXCEPT !.snapshots[path] = content,
              !.pendingExternalPaths = @ \ {path},
              !.baseline[path] = NoSnapshot]

\* clearTimeout(debounceTimers.get(path)): the handle the map holds for a
\* path is that of the timer set last for it.
clearTimeout(timers, w, path) ==
    IF w.debounceTimers[path] # NoTimer /\ Len(timers[path]) > 0
      THEN [timers EXCEPT ![path] = SubSeq(@, 1, Len(@) - 1)]
      ELSE timers

markAsInternalEdit_noClear(w, path) ==
    [w EXCEPT !.recentlyEditedInternally = @ \cup {path},
              !.debounceTimers[path] = DebounceTicks,
              !.armed[path] = Append(@, DebounceTicks),
              !.markerAge[path] = 0]

markAsInternalEdit(w, path) ==
    [w EXCEPT !.recentlyEditedInternally = @ \cup {path},
              !.debounceTimers[path] = DebounceTicks,
              !.armed = [clearTimeout(@, w, path) EXCEPT
                            ![path] = Append(@, DebounceTicks)],
              !.markerAge[path] = 0]

\* The callback markAsInternalEdit hands to setTimeout; it closes over the
\* path the marker was armed for.
timerCallback(w, path) ==
    [w EXCEPT !.recentlyEditedInternally = @ \ {path},
              !.debounceTimers[path] = NoTimer,
              !.markerAge[path] = 0]

destroy_keepsTimers(w) ==
    [w EXCEPT !.debounceTimers = [p \in Paths |-> NoTimer],
              !.recentlyEditedInternally = {},
              !.pendingExternalPaths = {},
              !.snapshots = [p \in Paths |-> NoSnapshot],
              !.markerAge = [p \in Paths |-> 0],
              !.baseline = [p \in Paths |-> NoSnapshot]]

destroy(w) ==
    [w EXCEPT !.debounceTimers = [p \in Paths |-> NoTimer],
              !.armed = [p \in Paths |-> clearTimeout(@, w, p)[p]],
              !.recentlyEditedInternally = {},
              !.pendingExternalPaths = {},
              !.snapshots = [p \in Paths |-> NoSnapshot],
              !.markerAge = [p \in Paths |-> 0],
              !.baseline = [p \in Paths |-> NoSnapshot]]

\* ExternalDiffPlugin.handleExternalChange: the latest report of a path is
\* the diff the view offers to accept or reject.
handleExternalChange(diffs, reports) ==
    IF reports = <<>> THEN diffs
    ELSE [diffs EXCEPT ![reports[1].path] =
             <<reports[1].oldContent, reports[1].newContent>>]

(***************************************************************************)
(* The diff engine.  A line is a sequence of characters, a text a sequence *)
(* of characters with "\n" between lines; indices into a line array are    *)
(* 0-based as in the source, and NoIndex stands for the -1 of an entry     *)
(* that has no line on one side.                                           *)
(***************************************************************************)
NoIndex == -1

\* arr[i] of the source, for a 0-based i
At(arr, i) == arr[i + 1]

\* findUnique: the first loop over arr[lo..hi], building the map in
\* insertion order.
RECURSIVE findUniqueLoop(_, _, _, _)
findUniqueLoop(arr, i, hi, map) ==
    IF i > hi THEN map
    ELSE LET line == At(arr, i)
             seen == {k \in 1..Len(map) : map[k].key = line}
         IN  findUniqueLoop(arr, i + 1, hi,
                 IF seen # {}
                   THEN [k \in 1..Len(map) |->
                           IF k \in seen
                             THEN [map[k] EXCEPT !.count = @ + 1, !.index = i]
                             ELSE map[k]]
                   ELSE Append(map, [key |-> line, count |-> 1, index |-> i]))

\* Every line of the span is kept, whatever its count.
findUnique_anyCount(arr, lo, hi) ==
    findUniqueLoop(arr, lo, hi, <<>>)

findUnique(arr, lo, hi) ==
    SelectSeq(findUniqueLoop(arr, lo, hi, <<>>), LAMBDA e : e.count = 1)

\* uniqueCommon: the entries of ma, in ma's order, whose key is in mb.
uniqueCommon(aArr, aLo, aHi, bArr, bLo, bHi) ==
    LET ma == findUnique(aArr, aLo, aHi)
        mb == findUnique(bArr, bLo, bHi)
        InB(key) == {k \in 1..Len(mb) : mb[k].key = key}
        common == SelectSeq(ma, LAMBDA e : InB(e.key) # {})
    IN  [k \in 1..Len(common) |->
           [key |-> common[k].key,
            indexA |-> common[k].index,
            indexB |-> mb[CHOOSE j \in InB(common[k].key) : TRUE].index]]

Top(pile) == pile[Len(pile)]

\* longestCommonSubsequence: the loop that deals the entries onto the piles
\* ja.  An entry's prev pointer is fixed when it is dealt, so the entry is
\* kept with the chain its prev pointers spell, oldest first.
RECURSIVE deal(_, _, _)
deal(vals, k, ja) ==
    IF k > Len(vals) THEN ja
    ELSE LET val == vals[k]
             stop == {i \in 1..Len(ja) : ~(Top(ja[i]).indexB < val.indexB)}
             i == IF stop = {} THEN Len(ja) + 1
                  ELSE CHOOSE m \in stop : \A n \in stop : m <= n
             entry == [indexA |-> val.indexA, indexB |-> val.indexB]
             dealt == [indexA |-> val.indexA, indexB |-> val.indexB,
                       chain |-> (IF i > 1 THEN Top(ja[i - 1]).chain
                                  ELSE <<>>) \o <<entry>>]
         IN  deal(vals, k + 1,
                  IF i > Len(ja) THEN Append(ja, <<dealt>>)
                  ELSE [ja EXCEPT ![i] = Append(@, dealt)])

\* The chain is read off the first pile instead of the last.
longestCommonSubsequence_firstPile(vals) ==
    LET ja == deal(vals, 1, <<>>)
    IN  IF Len(ja) = 0 THEN <<>> ELSE Top(ja[1]).chain

longestCommonSubsequence(vals) ==
    LET ja == deal(vals, 1, <<>>)
    IN  IF Len(ja) = 0 THEN <<>> ELSE Top(ja[Len(ja)]).chain

\* addToResult's entry
Entry(A, B, aIndex, bIndex) ==
    [line |-> IF aIndex >= 0 THEN At(A, aIndex) ELSE At(B, bIndex),
     aIndex |-> aIndex, bIndex |-> bIndex]

\* The number of rounds of addSubMatch's first loop.
RECURSIVE beginMatches(_, _, _, _, _, _)
beginMatches(A, B, aLo, aHi, bLo, bHi) ==
    IF aLo <= aHi /\ bLo <= bHi /\ At(A, aLo) = At(B, bLo)
      THEN 1 + beginMatches(A, B, aLo + 1, aHi, bLo + 1, bHi)
      ELSE 0

\* The number of rounds of addSubMatch's second loop.
RECURSIVE endMatches(_, _, _, _, _, _)
endMatches(A, B, aLo, aHi, bLo, bHi) ==
    IF aLo <= aHi /\ bLo <= bHi /\ At(A, aHi) = At(B, bHi)
      THEN 1 + endMatches(A, B, aLo, aHi - 1, bLo, bHi - 1)
      ELSE 0

\* What a call appends to result (lines), and the recurseLCS calls made
\* with their spans, maps and anchors (log).
Out(lines, log) == [lines |-> lines, log |-> log]
Then(o1, o2) == Out(o1.lines \o o2.lines, o1.log \o o2.log)

RECURSIVE addSubMatch_noEndMatches(_, _, _, _, _, _)
RECURSIVE addSubMatch(_, _, _, _, _, _)
RECURSIVE recurseLCS(_, _, _, _, _, _, _)
RECURSIVE betweenAnchors(_, _, _, _, _, _)

\* The matches saved at the end of the span are never added.
addSubMatch_noEndMatches(A, B, aLo0, aHi0, bLo0, bHi0) ==
    LET nb == beginMatches(A, B, aLo0, aHi0, bLo0, bHi0)
        aLo == aLo0 + nb
        bLo == bLo0 + nb
        ne == endMatches(A, B, aLo, aHi0, bLo, bHi0)
        aHi == aHi0 - ne
        bHi == bHi0 - ne
        ucMap == uniqueCommon(A, aLo, aHi, B, bLo, bHi)
        begin == Out([k \in 1..nb |->
                        Entry(A, B, aLo0 + k - 1, bLo0 + k - 1)], <<>>)
        middle == IF Len(ucMap) = 0
                    THEN Out([k \in 1..(aHi - aLo + 1) |->
                                Entry(A, B, aLo + k - 1, NoIndex)]
                             \o [k \in 1..(bHi - bLo + 1) |->
                                   Entry(A, B, NoIndex, bLo + k - 1)], <<>>)
                    ELSE recurseLCS(A, B, aLo, aHi, bLo, bHi, <<ucMap>>)
    IN  Then(begin, middle)

\* The base case adds the lines of B before the lines of A.
addSubMatch_insertsFirst(A, B, aLo0, aHi0, bLo0, bHi0) ==
    LET nb == beginMatches(A, B, aLo0, aHi0, bLo0, bHi0)
        aLo == aLo0 + nb
        bLo == bLo0 + nb
        ne == endMatches(A, B, aLo, aHi0, bLo, bHi0)
        aHi == aHi0 - ne
        bHi == bHi0 - ne
        ucMap == uniqueCommon(A, aLo, aHi, B, bLo, bHi)
        begin == Out([k \in 1..nb |->
                        Entry(A, B, aLo0 + k - 1, bLo0 + k - 1)], <<>>)
        middle == IF Len(ucMap) = 0
                    THEN Out([k \in 1..(bHi - bLo + 1) |->
                                Entry(A, B, NoIndex, bLo + k - 1)]
                             \o [k \in 1..(aHi - aLo + 1) |->
                                   Entry(A, B, aLo + k - 1, NoIndex)], <<>>)
                    ELSE recurseLCS(A, B, aLo, aHi, bLo, bHi, <<ucMap>>)
        end == Out([k \in 1..ne |-> Entry(A, B, aHi + k, bHi + k)], <<>>)
    IN  Then(Then(begin, middle), end)

addSubMatch(A, B, aLo0, aHi0, bLo0, bHi0) ==
    LET nb == beginMatches(A, B, aLo0, aHi0, bLo0, bHi0)
        aLo == aLo0 + nb
        bLo == bLo0 + nb
        ne == endMatches(A, B, aLo, aHi0, bLo, bHi0)
        aHi == aHi0 - ne
        bHi == bHi0 - ne
        ucMap == uniqueCommon(A, aLo, aHi, B, bLo, bHi)
        begin == Out([k \in 1..nb |->
                        Entry(A, B, aLo0 + k - 1, bLo0 + k - 1)], <<>>)
        middle == IF Len(ucMap) = 0
                    THEN Out([k \in 1..(aHi - aLo + 1) |->
                                Entry(A, B, aLo + k - 1, NoIndex)]
                             \o [k \in 1..(bHi - bLo + 1) |->
                                   Entry(A, B, NoIndex, bLo + k - 1)], <<>>)
                    ELSE recurseLCS(A, B, aLo, aHi, bLo, bHi, <<ucMap>>)
        end == Out([k \in 1..ne |-> Entry(A, B, aHi + k, bHi + k)], <<>>)
    IN  Then(Then(begin, middle), end)

\* recurseLCS's for loop and the call after it, from anchor x[i].
betweenAnchors(A, B, x, i, aHi, bHi) ==
    IF i < Len(x)
      THEN Then(addSubMatch(A, B, x[i].indexA, x[i + 1].indexA - 1,
                            x[i].indexB, x[i + 1].indexB - 1),
                betweenAnchors(A, B, x, i + 1, aHi, bHi))
    ELSE IF x[i].indexA <= aHi \/ x[i].indexB <= bHi
      THEN addSubMatch(A, B, x[i].indexA, aHi, x[i].indexB, bHi)
    ELSE Out(<<>>, <<>>)

\* A call without the optional argument computes the map and calls itself
\* with it, on the same span.
recurseLCS_retriesOnce(A, B, aLo, aHi, bLo, bHi, ucMap) ==
    LET map == IF ucMap = <<>> THEN uniqueCommon(A, aLo, aHi, B, bLo, bHi)
               ELSE ucMap[1]
        x == longestCommonSubsequence(map)
        call == Out(<<>>, <<[aLo |-> aLo, aHi |-> aHi, bLo |-> bLo,
                             bHi |-> bHi, map |-> map, x |-> x]>>)
    IN  IF ucMap = <<>>
          THEN Then(call, recurseLCS(A, B, aLo, aHi, bLo, bHi, <<map>>))
        ELSE IF Len(x) = 0
          THEN Then(call, addSubMatch(A, B, aLo, aHi, bLo, bHi))
          ELSE Then(call,
                 Then(IF aLo < x[1].indexA \/ bLo < x[1].indexB
                        THEN addSubMatch(A, B, aLo, x[1].indexA - 1,
                                         bLo, x[1].indexB - 1)
                        ELSE Out(<<>>, <<>>),
                      betweenAnchors(A, B, x, 1, aHi, bHi)))

\* ucMap is <<>> for a call without the optional argument, <<map>> with it.
recurseLCS(A, B, aLo, aHi, bLo, bHi, ucMap) ==
    LET map == IF ucMap = <<>> THEN uniqueCommon(A, aLo, aHi, B, bLo, bHi)
               ELSE ucMap[1]
        x == longestCommonSubsequence(map)
        call == Out(<<>>, <<[aLo |-> aLo, aHi |-> aHi, bLo |-> bLo,
                             bHi |-> bHi, map |-> map, x |-> x]>>)
    IN  IF Len(x) = 0
          THEN Then(call, addSubMatch(A, B, aLo, aHi, bLo, bHi))
          ELSE Then(call,
                 Then(IF aLo < x[1].indexA \/ bLo < x[1].indexB
                        THEN addSubMatch(A, B, aLo, x[1].indexA - 1,
                                         bLo, x[1].indexB - 1)
                        ELSE Out(<<>>, <<>>),
                      betweenAnchors(A, B, x, 1, aHi, bHi)))

patienceDiff(A, B) ==
    recurseLCS(A, B, 0, Len(A) - 1, 0, Len(B) - 1, <<>>)

\* a.split("\n")
RECURSIVE split(_)
split(text) ==
    IF text = <<>> THEN << <<>> >>
    ELSE LET init == split(SubSeq(text, 1, Len(text) - 1))
             c == text[Len(text)]
         IN  IF c = "\n" THEN Append(init, <<>>)
             ELSE [init EXCEPT ![Len(init)] = Append(@, c)]

\* The text whose lines are the given ones: lines.join("\n")
RECURSIVE join(_)
join(lines) ==
    IF Len(lines) = 0 THEN <<>>
    ELSE IF Len(lines) = 1 THEN lines[1]
    ELSE lines[1] \o <<"\n">> \o join(Tail(lines))

Change(fromA, toA, fromB, toB) ==
    [fromA |-> fromA, toA |-> toA, fromB |-> fromB, toB |-> toB]

IsMatch(e) == e.aIndex >= 0 /\ e.bIndex >= 0

\* lineDiff's inner loop: the run of deletions and insertions from entry i.
RECURSIVE accumulate(_, _, _, _, _, _)
accumulate(lines, nA, nB, i, curA, curB) ==
    IF i > Len(lines) \/ IsMatch(lines[i])
      THEN [i |-> i, curA |-> curA, curB |-> curB]
    ELSE LET e == lines[i]
         IN  IF e.bIndex = NoIndex
               THEN accumulate(lines, nA, nB, i + 1,
                      curA + Len(e.line) + (IF e.aIndex < nA - 1 THEN 1 ELSE 0),
                      curB)
               ELSE accumulate(lines, nA, nB, i + 1, curA,
                      curB + Len(e.line) + (IF e.bIndex < nB - 1 THEN 1 ELSE 0))

RECURSIVE lineDiffLoop_noContinue(_, _, _, _, _, _, _)
RECURSIVE lineDiffLoop(_, _, _, _, _, _, _)

\* The matched-line branch falls through into the accumulation.
lineDiffLoop_noContinue(lines, nA, nB, i, curA, curB, acc) ==
    IF i > Len(lines) THEN acc
    ELSE LET e == lines[i]
             m == IsMatch(e)
             a1 == IF m THEN curA + Len(e.line)
                             + (IF e.aIndex < nA - 1 THEN 1 ELSE 0)
                   ELSE curA
             b1 == IF m THEN curB + Len(e.line)
                             + (IF e.bIndex < nB - 1 THEN 1 ELSE 0)
                   ELSE curB
             r == accumulate(lines, nA, nB, IF m THEN i + 1 ELSE i, a1, b1)
         IN  lineDiffLoop(lines, nA, nB, r.i, r.curA, r.curB,
                          Append(acc, Change(a1, r.curA, b1, r.curB)))

\* lineDiff's outer loop from entry i.
lineDiffLoop(lines, nA, nB, i, curA, curB, acc) ==
    IF i > Len(lines) THEN acc
    ELSE LET e == lines[i]
         IN  IF IsMatch(e)
               THEN lineDiffLoop(lines, nA, nB, i + 1,
                      curA + Len(e.line) + (IF e.aIndex < nA - 1 THEN 1 ELSE 0),
                      curB + Len(e.line) + (IF e.bIndex < nB - 1 THEN 1 ELSE 0),
                      acc)
               ELSE LET r == accumulate(lines, nA, nB, i, curA, curB)
                    IN  lineDiffLoop(lines, nA, nB, r.i, r.curA, r.curB,
                                     Append(acc, Change(curA, r.curA,
                                                        curB, r.curB)))

lineDiff(a, b) ==
    LET aL == split(a)
        bL == split(b)
        diff == patienceDiff(aL, bL)
    IN  lineDiffLoop(diff.lines, Len(aL), Len(bL), 1, 0, 0, <<>>)

(***************************************************************************)
(* The range folder.  A document (CodeMirror Text) is the sequence of its  *)
(* lines' lengths; lines are numbered from 1 and separated by one          *)
(* character.                                                              *)
(***************************************************************************)
\* The characters of lines lo..hi, without separators (halving keeps the
\* evaluation shallow on long documents).
RECURSIVE charsOf(_, _, _)
charsOf(d, lo, hi) ==
    IF lo > hi THEN 0
    ELSE IF lo = hi THEN d[lo]
    ELSE LET mid == (lo + hi) \div 2
         IN  charsOf(d, lo, mid) + charsOf(d, mid + 1, hi)

\* doc.line(n).from
lineFrom(d, n) == charsOf(d, 1, n - 1) + (n - 1)

\* doc.line(n).to
lineTo(d, n) == lineFrom(d, n) + d[n]

\* doc.length
docLength(d) == lineTo(d, Len(d))

\* doc.lineAt(pos).number, for 0 <= pos <= doc.length: the first line
\* among lo..hi that ends at or after pos, found by bisection.
RECURSIVE lineAtIn(_, _, _, _)
lineAtIn(d, pos, lo, hi) ==
    IF lo >= hi THEN lo
    ELSE LET mid == (lo + hi) \div 2
         IN  IF pos <= lineTo(d, mid) THEN lineAtIn(d, pos, lo, mid)
             ELSE lineAtIn(d, pos, mid + 1, hi)

lineAt(d, pos) == lineAtIn(d, pos, 1, Len(d))

FoldRange(from, to, lines) == [from |-> from, to |-> to, lines |-> lines]

Min(a, b) == IF a <= b THEN a ELSE b

\* computeUnchangedRanges's loop from iteration i (0-based as in the source)
RECURSIVE unchangedLoop(_, _, _, _, _, _, _, _)
unchangedLoop(d, ch, sd, mg, ms, i, prevEndLine, acc) ==
    IF i > Len(ch) THEN acc
    ELSE LET isChunk == i < Len(ch)
             chunk == ch[i + 1]
             startLine == IF i = 0 THEN 1 ELSE prevEndLine + 1 + mg
             endLine == IF isChunk
                          THEN lineAt(d, IF sd = "a" THEN chunk.fromA
                                         ELSE chunk.fromB) - 1 - mg
                          ELSE Len(d)
             lineCount == endLine - startLine + 1
             pushed == IF /\ lineCount >= ms
                          /\ startLine >= 1
                          /\ endLine <= Len(d)
                          /\ startLine <= endLine
                         THEN Append(acc, FoldRange(lineFrom(d, startLine),
                                                    lineTo(d, endLine),
                                                    lineCount))
                         ELSE acc
             chunkEnd == IF sd = "a" THEN chunk.toA ELSE chunk.toB
         IN  unchangedLoop(d, ch, sd, mg, ms, i + 1,
                 IF isChunk THEN lineAt(d, Min(docLength(d), chunkEnd))
                 ELSE prevEndLine,
                 pushed)

\* The range before a chunk ends at the chunk's first line: the
\* "- 1 - margin" of endLine is missing.
RECURSIVE unchangedLoop_noTrim(_, _, _, _, _, _, _, _)
unchangedLoop_noTrim(d, ch, sd, mg, ms, i, prevEndLine, acc) ==
    IF i > Len(ch) THEN acc
    ELSE LET isChunk == i < Len(ch)
             chunk == ch[i + 1]
             startLine == IF i = 0 THEN 1 ELSE prevEndLine + 1 + mg
             endLine == IF isChunk
                          THEN lineAt(d, IF sd = "a" THEN chunk.fromA
                                         ELSE chunk.fromB)
                          ELSE Len(d)
             lineCount == endLine - startLine + 1
             pushed == IF /\ lineCount >= ms
                          /\ startLine >= 1
                          /\ endLine <= Len(d)
                          /\ startLine <= endLine
                         THEN Append(acc, FoldRange(lineFrom(d, startLine),
                                                    lineTo(d, endLine),
                                                    lineCount))
                         ELSE acc
             chunkEnd == IF sd = "a" THEN chunk.toA ELSE chunk.toB
         IN  unchangedLoop_noTrim(d, ch, sd, mg, ms, i + 1,
                 IF isChunk THEN lineAt(d, Min(docLength(d), chunkEnd))
                 ELSE prevEndLine,
                 pushed)

computeUnchangedRanges_noTrim(d, ch, sd, mg, ms) ==
    unchangedLoop_noTrim(d, ch, sd, mg, ms, 0, 0, <<>>)

computeUnchangedRanges(d, ch, sd, mg, ms) ==
    unchangedLoop(d, ch, sd, mg, ms, 0, 0, <<>>)

\* The offset lineDiff's curA / curB has after k lines of a document: every
\* line but the last counts its separator.
offsetAfter(d, k) ==
    charsOf(d, 1, k) + (IF k < Len(d) THEN k ELSE Len(d) - 1)

\* The chunks of two documents that share g0 lines, differ in a block of a1
\* lines against b1, share G lines, differ in a block of a2 lines against
\* b2, and share g2 lines; every line has w characters.  Each block is one
\* Change of lineDiff, from the offset where its first line starts to the
\* offset after its last line and that line's separator.
documentOf(l, sd) ==
    [k \in 1..(l.g0 + (IF sd = "a" THEN l.a1 + l.a2 ELSE l.b1 + l.b2)
               + l.G + l.g2) |-> l.w]

chunksOf(l) ==
    LET dA == documentOf(l, "a")
        dB == documentOf(l, "b")
    IN  <<Change(offsetAfter(dA, l.g0), offsetAfter(dA, l.g0 + l.a1),
                 offsetAfter(dB, l.g0), offsetAfter(dB, l.g0 + l.b1)),
          Change(offsetAfter(dA, l.g0 + l.a1 + l.G),
                 offsetAfter(dA, l.g0 + l.a1 + l.G + l.a2),
                 offsetAfter(dB, l.g0 + l.b1 + l.G),
                 offsetAfter(dB, l.g0 + l.b1 + l.G + l.b2))>>

\* The same for any list of blocks: l.blocks[j] is a block of a lines
\* against b lines that follows gap shared lines, and l.tail shared lines
\* end both documents.
sizeOn(blk, sd) == IF sd = "a" THEN blk.a ELSE blk.b

\* The number of lines of side sd before block j
RECURSIVE linesBefore(_, _, _)
linesBefore(l, sd, j) ==
    IF j = 1 THEN l.blocks[1].gap
    ELSE linesBefore(l, sd, j - 1) + sizeOn(l.blocks[j - 1], sd)
         + l.blocks[j].gap

linesOf(l, sd) ==
    IF Len(l.blocks) = 0 THEN l.tail
    ELSE linesBefore(l, sd, Len(l.blocks))
         + sizeOn(l.blocks[Len(l.blocks)], sd) + l.tail

documentOfList(l, sd) == [k \in 1..linesOf(l, sd) |-> l.w]

chunksOfList(l) ==
    LET dA == documentOfList(l, "a")
        dB == documentOfList(l, "b")
    IN  [j \in 1..Len(l.blocks) |->
           Change(offsetAfter(dA, linesBefore(l, "a", j)),
                  offsetAfter(dA, linesBefore(l, "a", j) + l.blocks[j].a),
                  offsetAfter(dB, linesBefore(l, "b", j)),
                  offsetAfter(dB, linesBefore(l, "b", j) + l.blocks[j].b))]

(***************************************************************************)
(* Initial state: a constructed plugin over a vault holding any set of     *)
(* markdown files, with the saved settings either way.                     *)
(***************************************************************************)
WatcherInit ==
    /\ started = FALSE
    /\ destroyed = FALSE
    /\ snapshots = [p \in Paths |-> NoSnapshot]
    /\ recentlyEditedInternally = {}
    /\ pendingExternalPaths = {}
    /\ debounceTimers = [p \in Paths |-> NoTimer]
    /\ armed = [p \in Paths |-> <<>>]
    /\ inflight = <<>>
    /\ pendingDiffs = [p \in Paths |-> NoDiff]
    /\ markerAge = [p \in Paths |-> 0]
    /\ baseline = [p \in Paths |-> NoSnapshot]
    /\ last = NoEvent
    /\ emitted = <<>>

\* foldField.create
FoldState(rs, ids) == [ranges |-> rs, foldedIds |-> ids]
foldFieldCreate == FoldState(<<>>, {})

\* foldField.update for a transaction carrying setFoldRanges.of(rs): the
\* ranges are replaced and every index of the new list is folded.
setFoldRanges(fs, rs) == FoldState(rs, {i \in 0..(Len(rs) - 1) : TRUE})

\* foldField.update for a transaction carrying toggleFold.of(index): the
\* membership of index is flipped, whether or not index names a range.
toggleFold(fs, index) ==
    FoldState(fs.ranges,
              IF index \in fs.foldedIds THEN fs.foldedIds \ {index}
              ELSE fs.foldedIds \cup {index})

\* buildDecorations: the indices that get a widget (and so a click listener);
\* a range with from >= to is skipped.
widgets(fs) ==
    {i \in 0..(Len(fs.ranges) - 1) : fs.ranges[i + 1].from < fs.ranges[i + 1].to}

ViewIdle ==
    /\ foldA = foldFieldCreate
    /\ foldB = foldFieldCreate

\* The pure functions are not running.
DiffIdle ==
    /\ aLines = <<>>
    /\ bLines = <<>>
    /\ result = <<>>
    /\ anchors = <<>>
    /\ changes = <<>>
    /\ abMap = <<>>
    /\ lcs = <<>>

FoldIdle ==
    /\ doc = <<>>
    /\ chunks = <<>>
    /\ side = "a"
    /\ margin = 0
    /\ minSize = 0
    /\ layout = <<>>
    /\ ranges = <<>>
    /\ ViewIdle

PureIdle ==
    /\ stage = "idle"
    /\ DiffIdle
    /\ FoldIdle

\* No scenario is followed.
ScenarioIdle ==
    /\ script = <<>>
    /\ pc = 0
    /\ reportLog = <<>>

Init ==
    /\ exists \in SUBSET Paths
    /\ WatcherInit
    /\ PureIdle
    /\ ScenarioIdle

(***************************************************************************)
(* Host events and the handlers they run.                                  *)
(***************************************************************************)
\* onLayoutReady: start() lists the markdown files and starts one read each.
StartUpTo(limit) ==
    /\ ~started /\ ~destroyed
    /\ Len(inflight) + Cardinality(exists) <= limit
    /\ started' = TRUE
    /\ \E order \in [1..Cardinality(exists) -> exists] :
          /\ \A i, j \in DOMAIN order : order[i] = order[j] => i = j
          /\ inflight' = inflight \o
                 [i \in DOMAIN order |-> Read("start", order[i], TRUE)]
    /\ last' = NoEvent
    /\ emitted' = <<>>
    /\ UNCHANGED <<pureVars, exists, destroyed, watcherVars, pendingDiffs>>
    /\ Track("")

Start == StartUpTo(MaxInflight)

\* vault 'modify': handleModify up to its await.  settings.enabled is the
\* user's to flip at any moment (the toggle command, the settings tab) and
\* is read nowhere else: a notification that finds it false returns at once
\* and changes nothing, which is a stuttering step; this action is the
\* notification that finds it true.
VaultModifyUpTo(p, limit) ==
    /\ ~destroyed /\ p \in exists
    /\ Len(inflight) < limit
    /\ inflight' = Append(inflight, Tagged(Read("modify", p, TRUE), inflight))
    /\ last' = NoEvent
    /\ emitted' = <<>>
    /\ UNCHANGED <<pureVars, exists, started, destroyed, watcherVars,
                   pendingDiffs>>
    /\ Track(p)

VaultModify(p) == VaultModifyUpTo(p, MaxInflight)

\* vault 'create': handleCreate up to its await.
VaultCreate(p) ==
    /\ ~destroyed /\ p \notin exists
    /\ Len(inflight) < MaxInflight
    /\ exists' = exists \cup {p}
    /\ inflight' = Append(inflight, Read("create", p, TRUE))
    /\ last' = NoEvent
    /\ emitted' = <<>>
    /\ UNCHANGED <<pureVars, started, destroyed, watcherVars, pendingDiffs>>
    /\ Track(p)

\* vault 'delete': handleDelete.  The TFile of a queued read keeps its path.
VaultDelete(p) ==
    /\ ~destroyed /\ p \in exists
    /\ exists' = exists \ {p}
    /\ SetFW(handleDelete(FW, p))
    /\ inflight' = [i \in DOMAIN inflight |->
                      IF inflight[i].path = p /\ inflight[i].live
                        THEN [inflight[i] EXCEPT !.live = FALSE]
                        ELSE inflight[i]]
    /\ last' = NoEvent
    /\ emitted' = <<>>
    /\ UNCHANGED <<pureVars, started, destroyed, pendingDiffs>>
    /\ Track(p)

\* vault 'rename': handleRename.  The host has rewritten file.path.
VaultRename(oldPath, p) ==
    /\ ~destroyed /\ oldPath \in exists /\ p \notin exists
    /\ exists' = (exists \ {oldPath}) \cup {p}
    /\ SetFW(handleRename(FW, p, oldPath))
    /\ inflight' = [i \in DOMAIN inflight |->
                      IF inflight[i].path = oldPath /\ inflight[i].live
                        THEN [inflight[i] EXCEPT !.path = p]
                        ELSE inflight[i]]
    /\ last' = NoEvent
    /\ emitted' = <<>>
    /\ UNCHANGED <<pureVars, started, destroyed, pendingDiffs>>
    /\ Track(p)

\* workspace 'editor-change' of a markdown view with a file.
EditorChange(p) ==
    /\ ~destroyed /\ p \in exists
    /\ SetFW(markAsInternalEdit(FW, p))
    /\ last' = Event("mark", p, debounceTimers[p])
    /\ emitted' = <<>>
    /\ UNCHANGED <<pureVars, exists, started, destroyed, inflight,
                   pendingDiffs>>
    /\ Track(p)

\* A due timer runs its callback.
TimerFire(p) ==
    /\ \E k \in DOMAIN armed[p] :
          /\ armed[p][k] = 0
          /\ SetFW([timerCallback(FW, p) EXCEPT
                       !.armed[p] = RemoveAt(@, k)])
    /\ inflight' = [i \in DOMAIN inflight |->
                      IF /\ inflight[i].kind = "modify"
                         /\ inflight[i].path = p
                         /\ p \in recentlyEditedInternally
                        THEN [inflight[i] EXCEPT !.raced = TRUE]
                        ELSE inflight[i]]
    /\ last' = NoEvent
    /\ emitted' = <<>>
    /\ UNCHANGED <<pureVars, exists, started, destroyed, pendingDiffs>>
    /\ Track(p)

\* Time passes by one tick; a due timer runs before time passes on.
Tick ==
    /\ \A p \in Paths : \A k \in DOMAIN armed[p] : armed[p][k] # 0
    /\ \E p \in Paths : armed[p] # <<>>
                         \/ (p \in recentlyEditedInternally
                             /\ markerAge[p] <= DebounceTicks)
    /\ debounceTimers' = [p \in Paths |->
                            IF debounceTimers[p] = NoTimer THEN NoTimer
                            ELSE debounceTimers[p] - 1]
    /\ armed' = [p \in Paths |->
                   [k \in DOMAIN armed[p] |-> armed[p][k] - 1]]
    /\ markerAge' = [p \in Paths |->
                       IF p \in recentlyEditedInternally
                          /\ markerAge[p] <= DebounceTicks
                         THEN markerAge[p] + 1 ELSE markerAge[p]]
    /\ last' = NoEvent
    /\ emitted' = <<>>
    /\ UNCHANGED <<pureVars, exists, started, destroyed, snapshots,
                   recentlyEditedInternally, pendingExternalPaths, baseline,
                   inflight, pendingDiffs>>
    /\ Track("")

\* The read of a handleModify completes: the classification runs.
ModifyRead(i, newContent, viewHas) ==
    /\ i \in DOMAIN inflight /\ inflight[i].kind = "modify"
    /\ viewHas => consultsEditor(FW, inflight[i].path, newContent)
    /\ LET r == handleModify(FW, inflight[i].path, newContent, viewHas)
       IN  /\ SetFW(r.w)
           /\ emitted' = r.reports
           /\ pendingDiffs' = handleExternalChange(pendingDiffs, r.reports)
    /\ inflight' = RemoveAt(inflight, i)
    /\ last' = [Classified(inflight[i].path, newContent, viewHas,
                           snapshots[inflight[i].path],
                           inflight[i].path \in pendingExternalPaths)
                  EXCEPT !.raced = inflight[i].raced]
    /\ UNCHANGED <<pureVars, exists, started, destroyed>>
    /\ Track(inflight[i].path)

\* The read of a handleCreate completes.
CreateRead(i, content) ==
    /\ i \in DOMAIN inflight /\ inflight[i].kind = "create"
    /\ SetFW(handleCreate(FW, inflight[i].path, content))
    /\ inflight' = RemoveAt(inflight, i)
    /\ last' = NoEvent
    /\ emitted' = <<>>
    /\ UNCHANGED <<pureVars, exists, started, destroyed, pendingDiffs>>
    /\ Track(inflight[i].path)

\* One read of start() completes.
StartRead(i, content) ==
    /\ i \in DOMAIN inflight /\ inflight[i].kind = "start"
    /\ SetFW(handleCreate(FW, inflight[i].path, content))
    /\ inflight' = RemoveAt(inflight, i)
    /\ last' = Event("seed", inflight[i].path, content)
    /\ emitted' = <<>>
    /\ UNCHANGED <<pureVars, exists, started, destroyed, pendingDiffs>>
    /\ Track(inflight[i].path)

\* start() written as a loop awaiting each read in turn: a rejected read
\* ends the loop, and the reads after it are never made.
ReadFail_abortsStart(i) ==
    /\ i \in DOMAIN inflight
    /\ inflight' = IF inflight[i].kind = "start"
                     THEN SelectSeq(inflight, LAMBDA r : r.kind # "start")
                     ELSE RemoveAt(inflight, i)
    /\ last' = Event(IF inflight[i].kind = "start" THEN "startFail"
                     ELSE "readFail", inflight[i].path, NoSnapshot)
    /\ emitted' = <<>>
    /\ UNCHANGED <<pureVars, exists, started, destroyed, watcherVars,
                   pendingDiffs>>
    /\ Track(inflight[i].path)

\* A read rejects: the rest of its handler never runs.  The reads of
\* start() are separate async callbacks under Promise.all: the rejection of
\* one leaves the others pending.
ReadFail(i) ==
    /\ i \in DOMAIN inflight
    /\ inflight' = RemoveAt(inflight, i)
    /\ last' = Event(IF inflight[i].kind = "start" THEN "startFail"
                     ELSE "readFail", inflight[i].path, NoSnapshot)
    /\ emitted' = <<>>
    /\ UNCHANGED <<pureVars, exists, started, destroyed, watcherVars,
                   pendingDiffs>>
    /\ Track(inflight[i].path)

\* The diff view's Accept: onAccept(content) of the path's latest diff.
\* The modify event of its vault.modify arrives as a later VaultModify.
Accept(p, content) ==
    /\ pendingDiffs[p] # NoDiff
    /\ pendingDiffs' = [pendingDiffs EXCEPT ![p] = NoDiff]
    /\ LET w1 == updateSnapshot(FW, p, content)
       IN  SetFW(IF content # pendingDiffs[p][2] /\ p \in exists
                   THEN markAsInternalEdit(w1, p) ELSE w1)
    /\ last' = NoEvent
    /\ emitted' = <<>>
    /\ UNCHANGED <<pureVars, exists, started, destroyed, inflight>>
    /\ Track(p)

\* The diff view's Reject: onReject() of the path's latest diff.
Reject(p) ==
    /\ pendingDiffs[p] # NoDiff
    /\ pendingDiffs' = [pendingDiffs EXCEPT ![p] = NoDiff]
    /\ LET w1 == IF p \in exists THEN markAsInternalEdit(FW, p) ELSE FW
       IN  SetFW(updateSnapshot(w1, p, pendingDiffs[p][1]))
    /\ last' = NoEvent
    /\ emitted' = <<>>
    /\ UNCHANGED <<pureVars, exists, started, destroyed, inflight>>
    /\ Track(p)

\* onunload: destroy().
Destroy ==
    /\ ~destroyed
    /\ destroyed' = TRUE
    /\ SetFW(destroy(FW))
    /\ last' = Event("destroy", "P",
                     Cardinality({p \in Paths : debounceTimers[p] # NoTimer}))
    /\ emitted' = <<>>
    /\ UNCHANGED <<pureVars, exists, started, inflight, pendingDiffs>>
    /\ Track("")

Next ==
    \/ Start
    \/ \E p \in Paths : VaultModify(p)
    \/ \E p \in Paths : VaultCreate(p)
    \/ \E p \in Paths : VaultDelete(p)
    \/ \E o, p \in Paths : VaultRename(o, p)
    \/ \E p \in Paths : EditorChange(p)
    \/ \E p \in Paths : TimerFire(p)
    \/ Tick
    \/ \E i \in 1..MaxInflight, c \in Contents, v \in BOOLEAN :
          ModifyRead(i, c, v)
    \/ \E i \in 1..MaxInflight, c \in Contents : CreateRead(i, c)
    \/ \E i \in 1..MaxInflight, c \in Contents : StartRead(i, c)
    \/ \E i \in 1..MaxInflight : ReadFail(i)
    \/ \E p \in Paths, c \in Contents : Accept(p, c)
    \/ \E p \in Paths : Reject(p)
    \/ Destroy

Spec == Init /\ [][Next]_vars

(***************************************************************************)
(* The accumulation scenario: path "P" has snapshot S0, is not pending and *)
(* has no marker; its events are, in this order, modify (read S1), modify  *)
(* (read S2), accept of S2 (updateSnapshot("P", S2)), modify (read S3),    *)
(* with no live view showing any of them.  Events of path "Q" interleave.  *)
(***************************************************************************)
AccumContents == 1..(NumContents + 2)

InitAccum ==
    /\ exists \in {{"P"}, {"P", "Q"}}
    /\ script \in {f \in [1..4 -> AccumContents] :
                     \A i, j \in 1..4 : f[i] = f[j] => i = j}
    /\ started = TRUE
    /\ destroyed = FALSE
    /\ \E q \in Contents \cup {NoSnapshot} :
          /\ (q = NoSnapshot) = ("Q" \notin exists)
          /\ snapshots = [p \in Paths |-> IF p = "P" THEN script[1] ELSE q]
    /\ recentlyEditedInternally = {}
    /\ pendingExternalPaths = {}
    /\ debounceTimers = [p \in Paths |-> NoTimer]
    /\ armed = [p \in Paths |-> <<>>]
    /\ inflight = <<>>
    /\ pendingDiffs = [p \in Paths |-> NoDiff]
    /\ markerAge = [p \in Paths |-> 0]
    /\ baseline = [p \in Paths |-> NoSnapshot]
    /\ last = NoEvent
    /\ emitted = <<>>
    /\ pc = 0
    /\ reportLog = <<>>
    /\ PureIdle

\* The queued read of path p, if any.
ReadOf(p) == {i \in DOMAIN inflight : inflight[i].path = p}

NextAccum ==
    \/ pc \in {0, 2, 5} /\ VaultModify("P")
    \/ pc = 1 /\ \E i \in ReadOf("P") : ModifyRead(i, script[2], FALSE)
    \/ pc = 3 /\ \E i \in ReadOf("P") : ModifyRead(i, script[3], FALSE)
    \/ pc = 4 /\ Accept("P", script[3])
    \/ pc = 6 /\ \E i \in ReadOf("P") : ModifyRead(i, script[4], FALSE)
    \/ VaultModify("Q")
    \/ VaultCreate("Q")
    \/ VaultDelete("Q")
    \/ EditorChange("Q")
    \/ TimerFire("Q")
    \/ Tick
    \/ \E i \in ReadOf("Q"), c \in Contents, v \in BOOLEAN :
          ModifyRead(i, c, v)
    \/ \E i \in ReadOf("Q"), c \in Contents : CreateRead(i, c)
    \/ \E i \in ReadOf("Q") : ReadFail(i)
    \/ \E c \in Contents : Accept("Q", c)
    \/ Reject("Q")

SpecAccum == InitAccum /\ [][NextAccum]_vars

(***************************************************************************)
(* The diff engine applied to every pair of line sequences of at most      *)
(* MaxLen lines over Lines: patienceDiff to the sequences, then lineDiff   *)
(* to the two texts they spell.                                            *)
(***************************************************************************)
Lines == {<<>>, <<"x">>, <<"y">>}
LineSeqs == UNION {[1..n -> Lines] : n \in 0..MaxLen}

InitDiff ==
    /\ exists = {}
    /\ WatcherInit
    /\ ScenarioIdle
    /\ FoldIdle
    /\ stage = "input"
    /\ aLines \in LineSeqs
    /\ bLines \in LineSeqs
    /\ result = <<>>
    /\ anchors = <<>>
    /\ changes = <<>>
    /\ abMap = <<>>
    /\ lcs = <<>>

RunPatienceDiff ==
    /\ stage = "input"
    /\ LET diff == patienceDiff(aLines, bLines)
       IN  /\ result' = diff.lines
           /\ anchors' = diff.log
    /\ stage' = "diffed"
    /\ UNCHANGED <<aLines, bLines, changes, abMap, lcs, foldVars,
                   classifierVars, scenarioVars>>

RunLineDiff ==
    /\ stage = "diffed"
    /\ changes' = lineDiff(join(aLines), join(bLines))
    /\ stage' = "converted"
    /\ UNCHANGED <<aLines, bLines, result, anchors, abMap, lcs, foldVars,
                   classifierVars, scenarioVars>>

NextDiff ==
    \/ RunPatienceDiff
    \/ RunLineDiff

SpecDiff == InitDiff /\ [][NextDiff]_vars

(***************************************************************************)
(* The range folder applied to one side of a two-block diff, for every     *)
(* margin up to MaxMargin and minimum size up to MaxMinSize.               *)
(***************************************************************************)
Gaps == (1..MaxGap) \cup {ExampleGap}
EdgeGaps == {0, 1, MaxGap}
Layouts ==
    [g0 : EdgeGaps, a1 : 1..2, b1 : 1..2, G : Gaps,
     a2 : 1..2, b2 : 1..2, g2 : EdgeGaps, w : 0..1]

InitFold ==
    /\ exists = {}
    /\ WatcherInit
    /\ ScenarioIdle
    /\ DiffIdle
    /\ stage = "input"
    /\ layout \in Layouts
    /\ side \in {"a", "b"}
    /\ margin \in 0..MaxMargin
    /\ minSize \in 1..MaxMinSize
    /\ doc = documentOf(layout, side)
    /\ chunks = chunksOf(layout)
    /\ ranges = <<>>
    /\ ViewIdle

RunComputeUnchangedRanges ==
    /\ stage = "input"
    /\ ranges' = computeUnchangedRanges(doc, chunks, side, margin, minSize)
    /\ stage' = "folded"
    /\ UNCHANGED <<doc, chunks, side, margin, minSize, layout, foldA, foldB,
                   diffVars, classifierVars, scenarioVars>>

NextFold == RunComputeUnchangedRanges

SpecFold == InitFold /\ [][NextFold]_vars

(***************************************************************************)
(* The range folder applied to one side of a diff of up to MaxBlocks       *)
(* blocks, each a replacement, a deletion or an insertion; consecutive     *)
(* blocks have at least one shared line between them (lineDiff puts        *)
(* adjacent changed lines in one Change) and both documents have a line.   *)
(***************************************************************************)
ListGaps == {0, 1, MaxMargin + 1, MaxGap}
Blocks == {blk \in [gap : ListGaps, a : 0..1, b : 0..1] : blk.a + blk.b >= 1}
BlockLists ==
    UNION {[1..n -> Blocks] : n \in 0..MaxBlocks}
ListLayouts ==
    {l \in [blocks : BlockLists, tail : ListGaps, w : 0..1] :
        /\ \A j \in 2..Len(l.blocks) : l.blocks[j].gap >= 1
        /\ linesOf(l, "a") >= 1
        /\ linesOf(l, "b") >= 1}

InitFoldList ==
    /\ exists = {}
    /\ WatcherInit
    /\ ScenarioIdle
    /\ DiffIdle
    /\ stage = "input"
    /\ layout \in ListLayouts
    /\ side \in {"a", "b"}
    /\ margin \in 0..MaxMargin
    /\ minSize \in 1..MaxMinSize
    /\ doc = documentOfList(layout, side)
    /\ chunks = chunksOfList(layout)
    /\ ranges = <<>>
    /\ ViewIdle

NextFoldList == RunComputeUnchangedRanges

\* ---- start() over a vault of several files, and the session after it

MaxReads == 2

InitStart ==
    /\ exists = Paths
    /\ WatcherInit
    /\ PureIdle
    /\ ScenarioIdle

NextStart ==
    \/ StartUpTo(MaxReads)
    \/ \E i \in 1..MaxReads, c \in Contents : StartRead(i, c)
    \/ \E i \in 1..MaxReads : ReadFail(i)
    \/ \E p \in Paths : VaultModifyUpTo(p, MaxReads)
    \/ \E i \in 1..MaxReads, c \in Contents, v \in BOOLEAN :
          ModifyRead(i, c, v)
    \/ \E p \in Paths : EditorChange(p)
    \/ \E p \in Paths : TimerFire(p)
    \/ Tick

SpecStart == InitStart /\ [][NextStart]_vars

\* ---- longestCommonSubsequence on its own: the unique common lines of two
\* spans, in increasing A-index order, their B indices in any order

MaxAnchors == 5

Orders(n) == {f \in [1..n -> 1..n] : \A i, j \in 1..n : f[i] = f[j] => i = j}

AbMaps == UNION {{[k \in 1..n |-> [key |-> f[k], indexA |-> k - 1,
                                    indexB |-> f[k] - 1]] : f \in Orders(n)} :
                 n \in 0..MaxAnchors}

InitLCS ==
    /\ exists = {}
    /\ WatcherInit
    /\ ScenarioIdle
    /\ FoldIdle
    /\ stage = "input"
    /\ aLines = <<>>
    /\ bLines = <<>>
    /\ result = <<>>
    /\ anchors = <<>>
    /\ changes = <<>>
    /\ abMap \in AbMaps
    /\ lcs = <<>>

RunLongestCommonSubsequence ==
    /\ stage = "input"
    /\ lcs' = longestCommonSubsequence(abMap)
    /\ stage' = "chained"
    /\ UNCHANGED <<aLines, bLines, result, anchors, changes, abMap, foldVars,
                   classifierVars, scenarioVars>>

NextLCS == RunLongestCommonSubsequence

SpecLCS == InitLCS /\ [][NextLCS]_vars

SpecFoldList == InitFoldList /\ [][NextFoldList]_vars

\* ---- the two editors of one comparison: createMergeView's fold set-up and
\* the fold widgets' click listeners

InitFoldSync ==
    /\ exists = {}
    /\ WatcherInit
    /\ ScenarioIdle
    /\ DiffIdle
    /\ stage = "input"
    /\ layout \in ListLayouts
    /\ side = "a"
    /\ margin \in 0..MaxMargin
    /\ minSize \in 1..MaxMinSize
    /\ doc = <<>>
    /\ chunks = chunksOfList(layout)
    /\ ranges = <<>>
    /\ ViewIdle

\* createMergeView, its last lines: both sides' ranges are computed from the
\* same chunks and setFoldRanges is dispatched to a, then to b.
CreateMergeView ==
    /\ stage = "input"
    /\ LET rangesA == computeUnchangedRanges(documentOfList(layout, "a"),
                                             chunks, "a", margin, minSize)
           rangesB == computeUnchangedRanges(documentOfList(layout, "b"),
                                             chunks, "b", margin, minSize)
       IN /\ foldA' = setFoldRanges(foldA, rangesA)
          /\ foldB' = setFoldRanges(foldB, rangesB)
    /\ stage' = "viewing"
    /\ UNCHANGED <<doc, chunks, side, margin, minSize, layout, ranges,
                   diffVars, classifierVars, scenarioVars>>

\* A click on side a's widget of a range: toggleFold on a, then syncA
\* dispatches the same toggleFold to b.
ClickA(index) ==
    /\ stage = "viewing"
    /\ index \in widgets(foldA)
    /\ foldA' = toggleFold(foldA, index)
    /\ foldB' = toggleFold(foldB, index)
    /\ UNCHANGED <<stage, doc, chunks, side, margin, minSize, layout, ranges,
                   diffVars, classifierVars, scenarioVars>>

\* A click on side b's widget of a range: toggleFold on b, then syncB
\* dispatches the same toggleFold to a.
ClickB(index) ==
    /\ stage = "viewing"
    /\ index \in widgets(foldB)
    /\ foldB' = toggleFold(foldB, index)
    /\ foldA' = toggleFold(foldA, index)
    /\ UNCHANGED <<stage, doc, chunks, side, margin, minSize, layout, ranges,
                   diffVars, classifierVars, scenarioVars>>

NextFoldSync ==
    \/ CreateMergeView
    \/ \E index \in 0..(2 * MaxBlocks) : ClickA(index)
    \/ \E index \in 0..(2 * MaxBlocks) : ClickB(index)

SpecFoldSync == InitFoldSync /\ [][NextFoldSync]_vars

(***************************************************************************)
(* Claims about the classifier.                                            *)
(***************************************************************************)
\* What the scenario has reported about "P" once pc events of "P" are done.
ExpectedLog(n) ==
    SubSeq(<<Report("P", script[1], script[2]),
             Report("P", script[1], script[3]),
             Report("P", script[3], script[4])>>, 1, n)

\* C1: in the accumulation scenario the reports about P are exactly
\* (P,S0,S1), (P,S0,S2), (P,S2,S3) in that order, each emitted by the
\* classification of its modify; the snapshot of P stays S0 until the
\* resolution, which makes it S2 and takes P out of the pending set.
C1_Accumulation ==
    /\ pc \in 0..7
    /\ reportLog = ExpectedLog(CASE pc <= 1 -> 0
                                 [] pc \in {2, 3} -> 1
                                 [] pc \in {4, 5, 6} -> 2
                                 [] OTHER -> 3)
    /\ snapshots["P"] = IF pc <= 4 THEN script[1] ELSE script[3]
    /\ ("P" \in pendingExternalPaths) = (pc \in {2, 3, 4, 7})

C1_Witness ==
    /\ pc = 7
    /\ reportLog = ExpectedLog(3)
    /\ snapshots["P"] = script[3]

\* C2: a classification that finds a snapshot different from the new
\* content, the path not pending, no marker on it and no live view showing
\* the content adds the path to the pending set, emits exactly the report
\* (path, snapshot, newContent) and leaves every snapshot as it was.
C2_GenuineExternalEdit ==
    [][last'.op = "classify" =>
        LET p == last'.path
            c == last'.content
        IN  (/\ snapshots[p] # NoSnapshot
             /\ snapshots[p] # c
             /\ p \notin pendingExternalPaths
             /\ p \notin recentlyEditedInternally
             /\ ~last'.viewHas)
            => /\ pendingExternalPaths' = pendingExternalPaths \cup {p}
               /\ emitted' = <<Report(p, snapshots[p], c)>>
               /\ snapshots' = snapshots]_vars

C2_Witness ==
    /\ last.op = "classify"
    /\ ~last.wasPending /\ ~last.viewHas
    /\ last.oldContent # NoSnapshot /\ last.oldContent # last.content
    /\ last.path \notin recentlyEditedInternally
    /\ emitted = <<Report(last.path, last.oldContent, last.content)>>
    /\ last.path \in pendingExternalPaths
    /\ snapshots[last.path] = last.oldContent

\* C3: every pending path still has the snapshot it had when it was added
\* to the pending set.
C3_FrozenBaseline ==
    \A p \in pendingExternalPaths : snapshots[p] = baseline[p]

C5_ExpiredMarkerIsExternal ==
    [][last'.op = "classify" =>
        LET p == last'.path
            c == last'.content
        IN  (/\ p \notin recentlyEditedInternally
                  \/ markerAge[p] > DebounceTicks
             /\ snapshots[p] # NoSnapshot
             /\ snapshots[p] # c
             /\ ~last'.viewHas)
            => /\ emitted' = <<Report(p, snapshots[p], c)>>
               /\ p \in pendingExternalPaths']_vars

DiffDone == stage \in {"diffed", "converted"}

OnA == SelectSeq(result, LAMBDA e : e.aIndex >= 0)
OnB == SelectSeq(result, LAMBDA e : e.bIndex >= 0)

\* C7: the entries of patienceDiff(A, B) that have an A index carry the
\* indices 0..|A|-1 in this order and the lines of A, those that have a B
\* index carry 0..|B|-1 in this order and the lines of B, every entry has
\* an index on at least one side, and an entry with both has the same line
\* on both sides.
C7_RoundTrip ==
    DiffDone =>
        /\ Len(OnA) = Len(aLines)
        /\ \A k \in 1..Len(OnA) :
              OnA[k].aIndex = k - 1 /\ OnA[k].line = aLines[k]
        /\ Len(OnB) = Len(bLines)
        /\ \A k \in 1..Len(OnB) :
              OnB[k].bIndex = k - 1 /\ OnB[k].line = bLines[k]
        /\ \A k \in 1..Len(result) :
              /\ result[k].aIndex >= 0 \/ result[k].bIndex >= 0
              /\ result[k].aIndex >= NoIndex /\ result[k].bIndex >= NoIndex
              /\ IsMatch(result[k]) =>
                    At(aLines, result[k].aIndex) = At(bLines, result[k].bIndex)

C7_Witness ==
    /\ DiffDone
    /\ Len(aLines) = MaxLen
    /\ \E k \in 1..Len(result) : IsMatch(result[k])
    /\ \E k \in 1..Len(result) : result[k].bIndex = NoIndex
    /\ \E k \in 1..Len(result) : result[k].aIndex = NoIndex
    /\ Len(OnA) = Len(aLines) /\ Len(OnB) = Len(bLines)

\* C8: patienceDiff(A, A) is the sequence of Match entries (A[i], i, i),
\* and lineDiff of a text with itself has no Change.
C8_Identity ==
    (aLines = bLines) =>
        /\ DiffDone =>
              result = [k \in 1..Len(aLines) |->
                          [line |-> aLines[k], aIndex |-> k - 1,
                           bIndex |-> k - 1]]
        /\ stage = "converted" => changes = <<>>

C8_Witness ==
    /\ stage = "converted"
    /\ aLines = bLines
    /\ aLines = <<<<"x">>, <<>>, <<"x">>, <<>>>>
    /\ Len(result) = Len(aLines)
    /\ changes = <<>>

\* The number of occurrences of a line in arr[lo..hi]
Occurrences(arr, lo, hi, line) ==
    Cardinality({i \in lo..hi : At(arr, i) = line})

\* The pairs of positions of the lines that occur exactly once in
\* A[aLo..aHi] and exactly once in B[bLo..bHi]
UniquePairs(A, B, aLo, aHi, bLo, bHi) ==
    {<<i, j>> \in (aLo..aHi) \X (bLo..bHi) :
        /\ At(A, i) = At(B, j)
        /\ Occurrences(A, aLo, aHi, At(A, i)) = 1
        /\ Occurrences(B, bLo, bHi, At(B, j)) = 1}

\* C9: at every recurseLCS call, the map of unique common lines holds
\* exactly the lines that occur once in the call's A span and once in its B
\* span, with their indices, and the anchors are among them; and
\* diff(["x","y","x"], ["x","y"]) has "y" in a Match entry and exactly one
\* "x" in a DeleteOnly entry.
C9_AnchorUniqueness ==
    DiffDone =>
        /\ \A n \in 1..Len(anchors) :
              LET c == anchors[n]
                  unique == UniquePairs(aLines, bLines,
                                        c.aLo, c.aHi, c.bLo, c.bHi)
              IN  /\ {<<c.map[k].indexA, c.map[k].indexB>> :
                         k \in 1..Len(c.map)} = unique
                  /\ Len(c.map) = Cardinality(unique)
                  /\ \A k \in 1..Len(c.map) :
                        c.map[k].key = At(aLines, c.map[k].indexA)
                  /\ \A k \in 1..Len(c.x) :
                        <<c.x[k].indexA, c.x[k].indexB>> \in unique
        /\ (aLines = <<<<"x">>, <<"y">>, <<"x">>>>
              /\ bLines = <<<<"x">>, <<"y">>>>) =>
              /\ \E k \in 1..Len(result) :
                    IsMatch(result[k]) /\ result[k].line = <<"y">>
              /\ Cardinality({k \in 1..Len(result) :
                    /\ result[k].line = <<"x">>
                    /\ result[k].aIndex >= 0
                    /\ result[k].bIndex = NoIndex}) = 1

C9_Witness ==
    /\ stage = "diffed"
    /\ aLines = <<<<"x">>, <<"y">>, <<"x">>>>
    /\ bLines = <<<<"x">>, <<"y">>>>
    /\ result = <<[line |-> <<"x">>, aIndex |-> 0, bIndex |-> 0],
                  [line |-> <<"y">>, aIndex |-> 1, bIndex |-> 1],
                  [line |-> <<"x">>, aIndex |-> 2, bIndex |-> NoIndex]>>
    /\ anchors[1].x = <<[indexA |-> 1, indexB |-> 1]>>

(***************************************************************************)
(* Claims about the range folder.                                          *)
(***************************************************************************)
\* The ranges that lie in the gap of layout.G unchanged lines between the
\* two blocks, on the side folded.
FirstGapLine ==
    layout.g0 + (IF side = "a" THEN layout.a1 ELSE layout.b1) + 1

InGap ==
    {k \in 1..Len(ranges) :
        /\ ranges[k].from >= lineFrom(doc, FirstGapLine)
        /\ ranges[k].to <= lineTo(doc, FirstGapLine + layout.G - 1)}

\* C10: for the gap of G unchanged lines between the two blocks,
\* computeUnchangedRanges emits a range iff G - 2 * margin >= minSize, and
\* the range has G - 2 * margin lines.
C10_FoldBoundaries ==
    stage = "folded" =>
        /\ (InGap # {}) <=> (layout.G - 2 * margin >= minSize)
        /\ \A k \in InGap : ranges[k].lines = layout.G - 2 * margin

\* The lines of the folded side that belong to an edit block
BlockLines ==
    UNION {{linesBefore(layout, side, j) + n :
               n \in 1..sizeOn(layout.blocks[j], side)} :
           j \in 1..Len(layout.blocks)}

\* C11: every range emitted by computeUnchangedRanges spans the lines
\* startLine..endLine of the document for some 1 <= startLine <= endLine <=
\* lastLine, from the start of startLine to the end of endLine, with lines
\* = endLine - startLine + 1; each range ends before the next begins; and
\* no range contains a line of an edit block.
C11_RangesWellFormed ==
    stage = "folded" =>
        /\ \A k \in 1..Len(ranges) :
              \E startLine, endLine \in 1..Len(doc) :
                 /\ startLine <= endLine
                 /\ ranges[k].from = lineFrom(doc, startLine)
                 /\ ranges[k].to = lineTo(doc, endLine)
                 /\ ranges[k].lines = endLine - startLine + 1
                 /\ \A b \in BlockLines : b < startLine \/ b > endLine
        /\ \A k \in 1..(Len(ranges) - 1) : ranges[k].to < ranges[k + 1].from

C11_Witness ==
    /\ stage = "folded"
    /\ Len(layout.blocks) = MaxBlocks
    /\ Len(ranges) >= 2
    /\ margin >= 1
    /\ BlockLines # {}

Flipped(ids, index) ==
    IF index \in ids THEN ids \ {index} ELSE ids \cup {index}

\* C12: once setFoldRanges has been dispatched to both sides of a
\* comparison, and after any sequence of fold-widget clicks on either side,
\* the folded range indices of side a equal those of side b; each click flips
\* exactly the clicked index on both sides and changes no other index.
C12_FoldLockstep ==
    /\ [](stage = "viewing" => foldA.foldedIds = foldB.foldedIds)
    /\ [][(stage = "viewing" /\ stage' = "viewing") =>
            \E index \in 0..(2 * MaxBlocks) :
               /\ foldA'.foldedIds = Flipped(foldA.foldedIds, index)
               /\ foldB'.foldedIds = Flipped(foldB.foldedIds, index)]_vars

\* C13: when the read of one document fails during start(), the reads of the
\* other documents stay pending and the classifier's state and the session
\* flags are untouched; every start read that succeeds seeds the snapshot of
\* its document with the content read.
C13_StartFailureIsolated ==
    /\ [](last.op = "seed" => snapshots[last.path] = last.content)
    /\ [][last'.op = "startFail" =>
            /\ \A i \in DOMAIN inflight :
                  (inflight[i].kind = "start"
                   /\ inflight[i].path # last'.path) =>
                     \E j \in DOMAIN inflight' : inflight'[j] = inflight[i]
            /\ FW' = FW
            /\ started' = started /\ destroyed' = destroyed]_vars

\* start() over two documents: the read of one has failed, the other's has
\* just seeded its snapshot.
C13_Witness ==
    /\ started /\ ~destroyed
    /\ last.op = "seed"
    /\ \A i \in DOMAIN inflight : inflight[i].kind # "start"
    /\ \E q \in exists \ {last.path} : snapshots[q] = NoSnapshot

\* C14: destroy() leaves the snapshot map, the marker set, the pending set
\* and the timer map empty, whatever marks, renames, deletes and expiries
\* came before it, and leaves no timer armed, so that no marker timer armed
\* before destroy() can fire after it.
C14_Teardown ==
    [][(~destroyed /\ destroyed') =>
         /\ snapshots' = [p \in Paths |-> NoSnapshot]
         /\ recentlyEditedInternally' = {}
         /\ pendingExternalPaths' = {}
         /\ debounceTimers' = [p \in Paths |-> NoTimer]
         /\ \A p \in Paths : armed'[p] = <<>>]_vars

\* destroy() has just cleared a timer, after an external edit was reported.
C14_Witness ==
    /\ destroyed
    /\ last.op = "destroy" /\ last.content >= 1
    /\ \E p \in Paths : pendingDiffs[p] # NoDiff

\* C15: a path has a snapshot only while its document is in the vault: once
\* onDelete(path) has run there is no snapshot for the path until a later
\* create or modify notification for it, whatever resolveSnapshot calls and
\* completions of reads started before the delete come in between.
C15_SnapshotOnlyWhileExists ==
    \A p \in Paths : p \notin exists => snapshots[p] = NoSnapshot

\* C16: until teardown, a path enters the pending set only in a step that
\* classifies a modify of it as a genuine external edit (snapshot present
\* and different, no marker, no view showing the content; the edit is
\* reported), and leaves it only in a resolveSnapshot step for it (accept or
\* reject of its diff); every other step (delete, rename, create, internal
\* edit, marker expiry, further modifies) leaves every path's membership as
\* it was.
C16_PendingLifecycle ==
    [][~destroyed' =>
         \A p \in Paths :
            /\ (p \notin pendingExternalPaths /\ p \in pendingExternalPaths')
                 => /\ last'.op = "classify" /\ last'.path = p
                    /\ last'.oldContent # NoSnapshot
                    /\ last'.oldContent # last'.content
                    /\ ~last'.viewHas
                    /\ p \notin recentlyEditedInternally
                    /\ emitted' = <<Report(p, last'.oldContent, last'.content)>>
            /\ (p \in pendingExternalPaths /\ p \notin pendingExternalPaths')
                 => /\ pendingDiffs[p] # NoDiff /\ pendingDiffs'[p] = NoDiff
                    /\ snapshots'[p] # NoSnapshot]_vars

\* A pending path has been deleted and is pending still.
C16_Witness ==
    /\ started /\ ~destroyed
    /\ \E p \in pendingExternalPaths : p \notin exists

\* C17: a rename of oldPath to newPath with a snapshot at oldPath leaves that
\* snapshot at newPath and none at oldPath; a marker on oldPath is on newPath
\* afterwards and not on oldPath; with neither snapshot nor marker at oldPath
\* the rename changes no field of the classifier.
C17_Rename ==
    [][\A oldPath, newPath \in Paths :
         (/\ oldPath \in exists /\ newPath \notin exists
          /\ oldPath \notin exists' /\ newPath \in exists') =>
            /\ snapshots[oldPath] # NoSnapshot =>
                  /\ snapshots'[newPath] = snapshots[oldPath]
                  /\ snapshots'[oldPath] = NoSnapshot
            /\ oldPath \in recentlyEditedInternally =>
                  /\ newPath \in recentlyEditedInternally'
                  /\ oldPath \notin recentlyEditedInternally'
            /\ (/\ snapshots[oldPath] = NoSnapshot
                /\ oldPath \notin recentlyEditedInternally) =>
                  /\ snapshots' = snapshots
                  /\ recentlyEditedInternally' = recentlyEditedInternally
                  /\ pendingExternalPaths' = pendingExternalPaths
                  /\ debounceTimers' = debounceTimers
                  /\ armed' = armed]_vars

\* A marked path with a snapshot has been renamed: the snapshot and the
\* marker are at the new path, the timer map's entry is at the old one.
C17_Witness ==
    \E oldPath, newPath \in Paths :
       /\ newPath \in exists /\ oldPath \notin exists
       /\ snapshots[newPath] # NoSnapshot /\ snapshots[oldPath] = NoSnapshot
       /\ newPath \in recentlyEditedInternally
       /\ debounceTimers[newPath] = NoTimer
       /\ debounceTimers[oldPath] # NoTimer

\* C18: in every reachable state each path in the marker set has an armed
\* timer whose callback removes that same path, so that every marker is
\* removed within the debounce duration, renames and deletes included.
C18_MarkerHasTimer ==
    \A p \in recentlyEditedInternally :
       /\ armed[p] # <<>>
       /\ markerAge[p] <= DebounceTicks

\* C19: in every reachable state at most one timer is armed per path, and it
\* is the one the timer map holds for the path; a step that arms a timer for
\* a path leaves that timer alone armed for it, with the full debounce
\* duration to run, so a timer found armed is cancelled and never fires.
C19_OneTimerPerPath ==
    /\ [](\A p \in Paths :
            /\ Len(armed[p]) <= 1
            /\ armed[p] # <<>> => debounceTimers[p] = armed[p][1])
    /\ [][\A p \in Paths :
            (/\ armed'[p] # <<>>
             /\ armed'[p] # armed[p]
             /\ armed'[p] # [k \in DOMAIN armed[p] |-> armed[p][k] - 1])
            => armed'[p] = <<DebounceTicks>>]_vars

\* An editor change has found a timer armed for its path and replaced it.
C19_Witness ==
    /\ last.op = "mark"
    /\ last.content # NoTimer
    /\ armed[last.path] = <<DebounceTicks>>
    /\ last.path \in recentlyEditedInternally

\* C20: of the modify notifications pending for one path, the one delivered
\* first is classified first, in whatever order their reads complete: a
\* classification step is that of the oldest pending notification of its
\* path.
C20_PerPathOrder ==
    [][last'.op = "classify" =>
         \E i \in DOMAIN inflight :
            /\ inflight' = RemoveAt(inflight, i)
            /\ inflight[i].kind = "modify"
            /\ inflight[i].path = last'.path
            /\ \A j \in 1..(i - 1) :
                  inflight[j].kind # "modify"
                  \/ inflight[j].path # inflight[i].path]_vars

\* C21 as claimed: a classification of a modify during whose read the
\* path's marker timer fired, with content other than the snapshot, the path
\* not pending and no view showing the content, reports the change as
\* external.
C21_TimerRaceReported ==
    [][(/\ last'.op = "classify" /\ last'.raced
        /\ last'.oldContent # NoSnapshot
        /\ last'.oldContent # last'.content
        /\ ~last'.wasPending /\ ~last'.viewHas)
       => /\ emitted' = <<Report(last'.path, last'.oldContent,
                                 last'.content)>>
          /\ last'.path \in pendingExternalPaths']_vars

\* C21: such a classification reports the change as external when the path
\* has no marker as the read completes (none set again since the expiry);
\* the report, the pending flag and the snapshot are those handleModify
\* computes from the state the read's completion finds, in the same step.
C21_TimerRaceDecidedAtCompletion ==
    [][(/\ last'.op = "classify" /\ last'.raced
        /\ last'.oldContent # NoSnapshot
        /\ last'.oldContent # last'.content
        /\ ~last'.wasPending /\ ~last'.viewHas
        /\ last'.path \notin recentlyEditedInternally)
       => /\ snapshots[last'.path] = last'.oldContent
          /\ emitted' = <<Report(last'.path, last'.oldContent,
                                 last'.content)>>
          /\ last'.path \in pendingExternalPaths'
          /\ snapshots'[last'.path] = last'.oldContent]_vars

\* The marker of a path expired while a modify of it waited for its read,
\* and the modify has just been reported.
C21_Witness ==
    /\ last.op = "classify" /\ last.raced
    /\ ~last.wasPending /\ ~last.viewHas
    /\ emitted = <<Report(last.path, last.oldContent, last.content)>>
    /\ last.path \in pendingExternalPaths
    /\ last.path \notin recentlyEditedInternally

\* The lines of A and B in the span of a recurseLCS call
SpanSize(c) ==
    (IF c.aHi >= c.aLo THEN c.aHi - c.aLo + 1 ELSE 0)
    + (IF c.bHi >= c.bLo THEN c.bHi - c.bLo + 1 ELSE 0)

\* Call c works inside the span of call d.
Within(c, d) ==
    /\ d.aLo <= c.aLo /\ c.aHi <= d.aHi
    /\ d.bLo <= c.bLo /\ c.bHi <= d.bHi

\* C22: in a finished patienceDiff the first recurseLCS call has the whole
\* of A and B as its span, every later call is made inside the span of an
\* earlier one, and each call has strictly fewer lines of A and B in its
\* span than every earlier call it is made inside of, so that no chain of
\* nested calls is longer than the input and the recursion ends.
C22_Terminates ==
    DiffDone =>
       /\ Len(anchors) >= 1
       /\ anchors[1].aLo = 0 /\ anchors[1].aHi = Len(aLines) - 1
       /\ anchors[1].bLo = 0 /\ anchors[1].bHi = Len(bLines) - 1
       /\ \A j \in 2..Len(anchors) :
             /\ Within(anchors[j], anchors[1])
             /\ \A i \in 1..(j - 1) :
                   Within(anchors[j], anchors[i]) =>
                      SpanSize(anchors[j]) < SpanSize(anchors[i])

\* A finished diff whose first recurseLCS call found no unique common line
\* and whose addSubMatch made a nested recurseLCS call.
C22_Witness ==
    /\ DiffDone
    /\ Len(anchors) >= 2
    /\ anchors[1].x = <<>>
    /\ Within(anchors[2], anchors[1])
    /\ anchors[2].x # <<>>

\* The sets of positions of abMap whose B indices increase with the
\* positions
Chains ==
    {c \in SUBSET (1..Len(abMap)) :
        \A i, j \in c : i < j => abMap[i].indexB < abMap[j].indexB}

\* C23: for unique common lines in increasing A-index order,
\* longestCommonSubsequence returns entries of its input that increase
\* strictly in indexA and in indexB, as many as the longest chain of input
\* entries with increasing B indices has; the result is empty only for an
\* empty input.
C23_AnchorChain ==
    stage = "chained" =>
       /\ \A k \in 1..Len(lcs) :
             \E m \in 1..Len(abMap) :
                /\ lcs[k].indexA = abMap[m].indexA
                /\ lcs[k].indexB = abMap[m].indexB
       /\ \A k \in 1..(Len(lcs) - 1) :
             /\ lcs[k].indexA < lcs[k + 1].indexA
             /\ lcs[k].indexB < lcs[k + 1].indexB
       /\ \A c \in Chains : Cardinality(c) <= Len(lcs)
       /\ lcs = <<>> => abMap = <<>>

\* An input of MaxAnchors lines out of order on the B side, with a longest
\* chain of three that does not end in the last line dealt.
C23_Witness ==
    /\ stage = "chained"
    /\ Len(abMap) = MaxAnchors
    /\ Len(lcs) = 3
    /\ lcs[3].indexA # MaxAnchors - 1
    /\ lcs[1].indexA # 0

DeleteOnly(e) == e.aIndex >= 0 /\ e.bIndex = NoIndex
InsertOnly(e) == e.aIndex = NoIndex /\ e.bIndex >= 0

\* C24: in the output of patienceDiff an InsertOnly entry is never directly
\* followed by a DeleteOnly entry, so that in every run of entries that are
\* no Match the deletions come before the insertions; consecutive deletions
\* have increasing A indices and consecutive insertions increasing B
\* indices.
C24_EditBlockShape ==
    DiffDone =>
       \A k \in 1..(Len(result) - 1) :
          /\ ~(InsertOnly(result[k]) /\ DeleteOnly(result[k + 1]))
          /\ (DeleteOnly(result[k]) /\ DeleteOnly(result[k + 1]))
                => result[k].aIndex < result[k + 1].aIndex
          /\ (InsertOnly(result[k]) /\ InsertOnly(result[k + 1]))
                => result[k].bIndex < result[k + 1].bIndex

\* A diff with two edit blocks around a Match, the first with deletions and
\* insertions, from two base cases under one recurseLCS call.
C24_Witness ==
    /\ DiffDone
    /\ Len(anchors) = 1 /\ anchors[1].x # <<>>
    /\ \E k \in 1..(Len(result) - 3) :
          /\ DeleteOnly(result[k]) /\ InsertOnly(result[k + 1])
          /\ IsMatch(result[k + 2])
          /\ ~IsMatch(result[k + 3])

\* The emitted ranges that lie in lines lo..hi of the document
RangesIn(lo, hi) ==
    {ranges[k] : k \in {n \in 1..Len(ranges) :
                          /\ lineFrom(doc, lo) <= ranges[n].from
                          /\ ranges[n].to <= lineTo(doc, hi)}}

\* The range of an unchanged span lo..hi shrunk by the margin at both ends,
\* if it passes the minimum-size test
ShrunkBothEnds(lo, hi) ==
    LET startLine == lo + margin
        endLine == hi - margin
        lineCount == endLine - startLine + 1
    IN  IF lineCount >= minSize /\ startLine <= endLine
          THEN {FoldRange(lineFrom(doc, startLine), lineTo(doc, endLine),
                          lineCount)}
          ELSE {}

\* C25: the unchanged lines before the first edit block give the range that
\* is left when the span is shrunk by the margin at both of its ends, if
\* that passes the minimum-size test, and no range otherwise; and of
\* unchanged lines after the last edit block, the last margin lines of the
\* document are in no range.
C25_EdgeMargins ==
    (stage = "folded" /\ Len(layout.blocks) >= 1) =>
       LET first == layout.blocks[1].gap
           total == Len(doc)
       IN  /\ (first >= 1 /\ first < total) =>
                 RangesIn(1, first) = ShrunkBothEnds(1, first)
           /\ layout.tail >= 1 =>
                 \A k \in 1..Len(ranges) :
                    ranges[k].to <= lineTo(doc, total - margin)

\* C26: once destroy() has run, the snapshot map, the marker set, the
\* pending set and the timer map are empty and stay so, and no step reports
\* an external change, whatever reads complete and whatever diffs are
\* accepted or rejected afterwards.
C26_QuiescentAfterTeardown ==
    destroyed =>
       /\ snapshots = [p \in Paths |-> NoSnapshot]
       /\ recentlyEditedInternally = {}
       /\ pendingExternalPaths = {}
       /\ debounceTimers = [p \in Paths |-> NoTimer]
       /\ emitted = <<>>

=========================================================================
